---- MODULE Spec2Model ----
(***************************************************************************)
(* Model of plex_music_ratings_sync/sync.py: the mtime-keyed rating cache  *)
(* (load_cache / save_cache), the track processor (_process_item), the     *)
(* library walker (_process_libraries) and the run controller             *)
(* (sync_ratings / import_ratings / export_ratings with the atexit flush). *)
(***************************************************************************)
EXTENDS Integers, Sequences, FiniteSets, TLC

\* ------------------------------------------------------------------ bounds
MaxRating == 2      \* ratings are 1..MaxRating, or absent
MaxRuns   == 2      \* successive process runs over the same stores
FillerLen == 34     \* tracks per bulk album of the long catalog
MaxMtime  == 2      \* an external writer acts between calls on files older
                    \* than this

\* ------------------------------------------------------- program constants
CACHE_SAVE_INTERVAL == 50

SUPPORTED_EXTENSIONS == {".flac", ".m4a", ".mp3", ".ogg", ".opus", ".aif", ".aiff"}

\* ------------------------------------------------------------ value domain
\* An optional rating: <<>> is Python's None, <<r>> a present rating r.
None      == <<>>
Ratings   == 1..MaxRating
ROpt      == {None} \cup {<<r>> : r \in Ratings}

Modes     == {"sync", "import", "export"}

EmptyMap  == [x \in {} |-> x]

\* dict assignment d[k] = v
MapPut(d, k, v) == [x \in DOMAIN d \cup {k} |-> IF x = k THEN v ELSE d[x]]

\* del d[k]
MapDel(d, k) == [x \in DOMAIN d \ {k} |-> d[x]]

\* --------------------------------------------------------- the file names
\* Path(...).suffix of the paths the catalogs use.
Suffix(path) ==
    CASE path = "a.mp3"    -> ".mp3"
      [] path = "b.FLAC"   -> ".FLAC"
      [] path = "c.txt"    -> ".txt"
      [] path = "gone.mp3" -> ".mp3"

\* str.lower() on the suffixes above
Lower(s) == IF s = ".FLAC" THEN ".flac" ELSE s

\* ------------------------------------------------------------ the catalog
\* Track items: item.media[0].parts[0].file and the item's identity on the
\* server.  "gone.mp3" is a path with no file on disk.
TrackA    == [id |-> 1, file |-> "a.mp3"]
TrackB    == [id |-> 2, file |-> "b.FLAC"]
TrackC    == [id |-> 3, file |-> "c.txt"]
TrackGone == [id |-> 4, file |-> "gone.mp3"]

TrackIds  == {1, 2, 3, 4}
RichFiles == {"a.mp3", "b.FLAC"}
CachedFiles == {"a.mp3"}      \* the files earlier runs may have cached

Artist(albums) == [type |-> "artist", albums |-> albums]
Other          == [type |-> "collection", albums |-> <<>>]

Filler == [i \in 1..FillerLen |-> TrackGone]

\* A server: library name -> items of the section.  A name outside the
\* domain makes library.section(name) raise.
SmallPlex ==
    [n \in {"Music", "Empty", "More"} |->
        CASE n = "Music" -> << Artist(<< <<TrackA, TrackC>>, <<>> >>), Other >>
          [] n = "Empty" -> <<>>
          [] n = "More"  -> << Artist(<< <<TrackGone, TrackB>> >>) >>]

SmallLibraries == <<"Music", "Renamed", "Empty", "More">>

\* the libraries of the runs next to an external writer
RaceLibraries == <<"Music", "Renamed", "Empty">>

\* the files the external writer works on
WrittenFiles == {"a.mp3"}

LongPlex ==
    [n \in {"Music", "Empty", "Bulk", "More"} |->
        CASE n = "Music" -> << Artist(<< <<TrackA, TrackC>>, <<>> >>), Other >>
          [] n = "Empty" -> <<>>
          [] n = "Bulk"  -> << Artist(<< Filler >>), Artist(<< Filler, Filler >>) >>
          [] n = "More"  -> << Artist(<< <<TrackGone, TrackB>> >>) >>]

LongLibraries == <<"Music", "Renamed", "Empty", "Bulk", "More">>

VARIABLES
    libraries,          \* self.libraries: configured section names
    plex,               \* the server's sections
    mode,               \* the mode of the runs
    run,                \* number of the current process run
    pc,                 \* position of the run
    li,                 \* index of the current library in libraries
    ti,                 \* index of the next track of the current library
    processed_tracks,
    tracks_since_save,
    file_rating_cache,  \* _file_rating_cache
    cache_dirty,        \* _cache_dirty
    persisted,          \* the mapping CACHE_FILE holds when it is a JSON object
    cacheFile,          \* what CACHE_FILE is: "missing", "object", "invalid"
                        \* (not JSON), "null" (JSON null), "list" (a JSON list
                        \* or string)
    cacheIsDict,        \* _file_rating_cache is a dict
    remote,             \* remote rating of each track item
    files,              \* files on disk: path -> [mtime, rating]
    updated_tracks,     \* self.updated_tracks
    applied,            \* history: writes applied in this run, in order
    call,               \* history: the last _process_item call
    invocations,        \* history: _process_item calls of this run
    periodicFlushes,    \* history: save_cache calls of line 264 in this run
    connected,          \* history: the PlexServer connection succeeded
    printed,            \* history: _print_summary ran in this run
    exitWritable,       \* history: storage was writable at the exit flush
    fault,              \* history: a skip by stat race or an exception in this run
    prevFault,          \* history: the preceding run raced, raised or did not connect
    lastSeen,           \* history: path -> mtime the file had when the last
                        \*          call that reached the cache logic on it ended
    visited,            \* history: ids of the tracks passed to _process_item
                        \*          in this run, in order
    loaded,             \* history: what load_cache found CACHE_FILE to be in
                        \*          this run ("none" before the load)
    lateWrite           \* history: an external writer changed a file between
                        \*          the codec's write and the re-stat

vars == << libraries, plex, mode, run, pc, li, ti, processed_tracks,
           tracks_since_save, file_rating_cache, cache_dirty, persisted,
           cacheFile, cacheIsDict, remote, files, updated_tracks, applied,
           call, invocations,
           periodicFlushes, connected, printed, exitWritable, fault, prevFault,
           lastSeen, visited, loaded, lateWrite >>


\* ------------------------------------------------------------- the cache
\* load_cache (lines 52-63): with no file the module's {} stays; the value
\* json.load returns is assigned before line 57 takes its len().  Text that
\* is not JSON makes json.load raise, null makes len() raise: both reach the
\* except clause, which assigns {}.  A list or a string has a len() and stays.
load_cache(kind, per) ==
    CASE kind = "missing" -> [cache |-> EmptyMap, isDict |-> TRUE]
      [] kind = "object"  -> [cache |-> per,      isDict |-> TRUE]
      [] kind = "invalid" -> [cache |-> EmptyMap, isDict |-> TRUE]
      [] kind = "null"    -> [cache |-> EmptyMap, isDict |-> TRUE]
      [] kind = "list"    -> [cache |-> EmptyMap, isDict |-> FALSE]

\* save_cache opening CACHE_FILE with 'a' for 'w': the dump lands behind what
\* the file held, which is JSON only when there was no file
save_cacheAppends(dirty, c, per, kind, how) ==
    IF dirty /\ how = "ok"
    THEN IF kind = "missing"
         THEN [dirty |-> FALSE, persisted |-> c, kind |-> "object"]
         ELSE [dirty |-> FALSE, persisted |-> EmptyMap, kind |-> "invalid"]
    ELSE [dirty |-> dirty, persisted |-> per, kind |-> kind]

\* save_cache with line 75 (_cache_dirty = False) ahead of the try block
save_cacheClearsFirst(dirty, c, per, kind, how) ==
    IF dirty
    THEN CASE how = "ok"   -> [dirty |-> FALSE, persisted |-> c, kind |-> "object"]
           [] how = "open" -> [dirty |-> FALSE, persisted |-> per, kind |-> kind]
           [] how = "dump" -> [dirty |-> FALSE, persisted |-> EmptyMap,
                               kind |-> "invalid"]
    ELSE [dirty |-> dirty, persisted |-> per, kind |-> kind]

\* save_cache (lines 65-77): when dirty, dump the mapping and clear the flag.
\* An error is logged and leaves the flag set: raised by mkdir or open
\* (how = "open") it leaves the file as it was, raised by json.dump
\* (how = "dump") it leaves the file that open(.., 'w') truncated.
save_cache(dirty, c, per, kind, how) ==
    IF dirty
    THEN CASE how = "ok"   -> [dirty |-> FALSE, persisted |-> c, kind |-> "object"]
           [] how = "open" -> [dirty |-> dirty, persisted |-> per, kind |-> kind]
           [] how = "dump" -> [dirty |-> dirty, persisted |-> EmptyMap,
                               kind |-> "invalid"]
    ELSE [dirty |-> dirty, persisted |-> per, kind |-> kind]

\* lines 69-74: the write succeeds or raises; it is attempted only when dirty
StorageOutcomes(dirty) == IF dirty THEN {"ok", "open", "dump"} ELSE {"ok"}

\* CacheHit without the comparison of the modification times
CacheHitAnyMtime(c, p, current_mtime) ==
    p \in DOMAIN c

\* line 147-149: the entry is in the cache and its mtime is the current one
CacheHit(c, p, current_mtime) ==
    p \in DOMAIN c /\ c[p].mtime = current_mtime

\* get_rating_from_file: the rating tag stored in the file
get_rating_from_file(fs, p) == fs[p].rating

\* ReadPath storing the entry again and setting the flag on a hit as well
ReadPathAlwaysPuts(c, d, fs, p, current_mtime) ==
    IF CacheHit(c, p, current_mtime)
    THEN [cache |-> c, dirty |-> TRUE, file_rating |-> c[p].rating,
          reads |-> 0, hit |-> TRUE]
    ELSE LET file_rating == get_rating_from_file(fs, p)
         IN [cache |-> MapPut(c, p, [mtime |-> current_mtime,
                                      rating |-> file_rating]),
             dirty |-> TRUE, file_rating |-> file_rating,
             reads |-> 1, hit |-> FALSE]

\* lines 144-161: the local rating, through the cache
ReadPath(c, d, fs, p, current_mtime) ==
    IF CacheHit(c, p, current_mtime)
    THEN [cache |-> c, dirty |-> d, file_rating |-> c[p].rating,
          reads |-> 0, hit |-> TRUE]
    ELSE LET file_rating == get_rating_from_file(fs, p)
         IN [cache |-> MapPut(c, p, [mtime |-> current_mtime,
                                      rating |-> file_rating]),
             dirty |-> TRUE, file_rating |-> file_rating,
             reads |-> 1, hit |-> FALSE]

\* AfterLocalWrite with `pass` in the except clause of the re-stat: the
\* entry of before the write stays
AfterLocalWriteKeeps(c, d, p, statOk, new_mtime, rating) ==
    IF statOk
    THEN [cache |-> MapPut(c, p, [mtime |-> new_mtime, rating |-> rating]),
          dirty |-> TRUE]
    ELSE [cache |-> c, dirty |-> d]

\* AfterLocalWrite storing file_rating (the entry's rating) for plex_rating
AfterLocalWriteStale(c, d, p, statOk, new_mtime, rating) ==
    IF statOk
    THEN [cache |-> MapPut(c, p, [mtime |-> new_mtime,
                                   rating |-> IF p \in DOMAIN c
                                              THEN c[p].rating ELSE None]),
          dirty |-> TRUE]
    ELSE [cache |-> IF p \in DOMAIN c THEN MapDel(c, p) ELSE c,
          dirty |-> d]

\* lines 183-192 and 204-213: the cache after a local write of `rating`
AfterLocalWrite(c, d, p, statOk, new_mtime, rating) ==
    IF statOk
    THEN [cache |-> MapPut(c, p, [mtime |-> new_mtime, rating |-> rating]),
          dirty |-> TRUE]
    ELSE [cache |-> IF p \in DOMAIN c THEN MapDel(c, p) ELSE c,
          dirty |-> d]

\* ---------------------------------------------------- the collaborators
\* get_rating_from_plex: the live remote rating of the item
get_rating_from_plex(rem, item) == rem[item.id]

\* set_rating_to_plex
set_rating_to_plex(rem, item, rating) == [rem EXCEPT ![item.id] = rating]

\* set_rating_to_file: the tag is rewritten, which gives the file a later
\* modification time
set_rating_to_file(fs, p, rating) ==
    [fs EXCEPT ![p] = [mtime |-> @.mtime + 1, rating |-> rating]]

\* what an external writer does at one point of a call: nothing (<<>>) or
\* a write of the rating x (<< x >>, x absent or present)
NoWriter == <<>>
Writers  == {NoWriter} \cup { << x >> : x \in ROpt }

\* an external writer's change of the rating of p to w[1]: like the codec's
\* write it gives the file a later modification time
external_write(fs, p, w) ==
    IF w = NoWriter \/ w[1] = fs[p].rating
    THEN fs
    ELSE [fs EXCEPT ![p] = [mtime |-> @.mtime + 1, rating |-> w[1]]]

\* what the environment does to one _process_item call (an error of stat
\* other than FileNotFoundError propagates exactly as the remote read's does)
Envs ==
    [plexRead : {"ok", "raise"},              \* get_rating_from_plex
     stat     : {"ok", "notfound"},           \* file_path.stat() of line 140
     write    : {"ok", "raise"},              \* set_rating_to_plex / _to_file
     restat   : BOOLEAN,                      \* file_path.stat() after a write
     extRead  : {NoWriter},                   \* writer between lines 140 and 154
     extWrite : {NoWriter}]                   \* writer between the codec's
                                              \* write and the re-stat

\* the calls of a run next to an external writer, all collaborators working
RaceEnvs ==
    [plexRead : {"ok"}, stat : {"ok"}, write : {"ok"}, restat : BOOLEAN,
     extRead  : Writers, extWrite : Writers]

NoEnv == [plexRead |-> "ok", stat |-> "ok", write |-> "ok", restat |-> TRUE,
          extRead |-> NoWriter, extWrite |-> NoWriter]

\* -------------------------------------------------------- the decision
Write(to, action, old, new) ==
    [to |-> to, action |-> action, old |-> old, new |-> new]

\* Decide with sync preferring a present local rating over the remote one
DecideLocalFirst(m, plex_rating, file_rating) ==
    IF m = "import" /\ file_rating # None
    THEN IF plex_rating # file_rating
         THEN << Write("plex", "IMPORT (File->Plex)", plex_rating, file_rating) >>
         ELSE <<>>
    ELSE IF m = "export" /\ plex_rating # None
    THEN IF file_rating # plex_rating
         THEN << Write("file", "EXPORT (Plex->File)", file_rating, plex_rating) >>
         ELSE <<>>
    ELSE IF m = "sync" /\ plex_rating # file_rating
    THEN IF file_rating # None
         THEN << Write("plex", "SYNC (File->Plex)", plex_rating, file_rating) >>
         ELSE << Write("file", "SYNC (Plex->File)", file_rating, plex_rating) >>
    ELSE <<>>

\* Decide with sync's second branch an `if` instead of an `elif`: when both
\* ratings are present and differ, both stores are written
DecideBothWays(m, plex_rating, file_rating) ==
    IF m = "sync" /\ plex_rating # file_rating
    THEN (IF plex_rating # None
          THEN << Write("file", "SYNC (Plex->File)", file_rating, plex_rating) >>
          ELSE <<>>)
         \o (IF file_rating # None
             THEN << Write("plex", "SYNC (File->Plex)", plex_rating, file_rating) >>
             ELSE <<>>)
    ELSE DecideLocalFirst(m, plex_rating, file_rating)

\* Decide with export's comparison of the two ratings left out
DecideExportAlways(m, plex_rating, file_rating) ==
    IF m = "export" /\ plex_rating # None
    THEN << Write("file", "EXPORT (Plex->File)", file_rating, plex_rating) >>
    ELSE IF m = "export" THEN <<>>
    ELSE DecideLocalFirst(m, plex_rating, file_rating)

\* Decide with import mode writing the remote rating into a file that has
\* none
DecideImportBackfills(m, plex_rating, file_rating) ==
    IF m = "import" /\ file_rating = None /\ plex_rating # None
    THEN << Write("file", "IMPORT (Plex->File)", file_rating, plex_rating) >>
    ELSE DecideLocalFirst(m, plex_rating, file_rating)

\* lines 170-219: the writes the mode's branch issues, in order
Decide(m, plex_rating, file_rating) ==
    IF m = "import" /\ file_rating # None
    THEN IF plex_rating # file_rating
         THEN << Write("plex", "IMPORT (File->Plex)", plex_rating, file_rating) >>
         ELSE <<>>
    ELSE IF m = "export" /\ plex_rating # None
    THEN IF file_rating # plex_rating
         THEN << Write("file", "EXPORT (Plex->File)", file_rating, plex_rating) >>
         ELSE <<>>
    ELSE IF m = "sync"
    THEN IF plex_rating # file_rating
         THEN IF plex_rating # None
              THEN << Write("file", "SYNC (Plex->File)", file_rating, plex_rating) >>
              ELSE IF file_rating # None
              THEN << Write("plex", "SYNC (File->Plex)", plex_rating, file_rating) >>
              ELSE <<>>
         ELSE <<>>
    ELSE <<>>

\* lines 165-168: track_change appends the message to the change log
track_change(updated, item, w) ==
    Append(updated, [action |-> w.action, track |-> item.id,
                     old |-> w.old, new |-> w.new])

\* One issued write: the change is logged, then the collaborator is called;
\* after a local write the file is re-stat'ed and the cache updated.
IssueWrite(st, item, w, e) ==
    LET s1 == [st EXCEPT !.updated = track_change(@, item, w),
                         !.issued  = Append(@, [to |-> w.to, value |-> w.new])]
    IN  IF e.write = "raise"
        THEN [s1 EXCEPT !.raised = TRUE]
        ELSE IF w.to = "plex"
        THEN [s1 EXCEPT !.remote  = set_rating_to_plex(@, item, w.new),
                        !.applied = Append(@, [to |-> "plex", track |-> item.id,
                                               value |-> w.new])]
        ELSE LET fs2 == set_rating_to_file(s1.files, item.file, w.new)
                 fs3 == external_write(fs2, item.file, e.extWrite)
                 cu  == AfterLocalWrite(s1.cache, s1.dirty, item.file, e.restat,
                                        fs3[item.file].mtime, w.new)
             IN [s1 EXCEPT !.files   = fs3,
                           !.applied = Append(@, [to |-> "file", track |-> item.id,
                                                  value |-> w.new]),
                           !.cache   = cu.cache,
                           !.dirty   = cu.dirty,
                           !.restat  = IF e.restat THEN "ok" ELSE "fail",
                           !.late    = (fs3 # fs2)]

RECURSIVE IssueWrites(_, _, _, _)
IssueWrites(st, item, ws, e) ==
    IF ws = <<>> \/ st.raised
    THEN st
    ELSE IssueWrites(IssueWrite(st, item, Head(ws), e), item, Tail(ws), e)


\* ------------------------------------------------- the track processor
\* Supported without the extension test
SupportedAny(path) == TRUE

\* line 132
Supported(path) == Lower(Suffix(path)) \in SUPPORTED_EXTENSIONS

NoCall ==
    [file |-> "", track |-> 0, prev |-> <<>>, outcome |-> "none",
     R |-> None, L |-> None, mtime |-> 0,
     before |-> <<>>, hit |-> FALSE, reads |-> 0, file_rating |-> None,
     entry |-> <<>>, issued |-> <<>>, dirty |-> FALSE, restat |-> "none"]

\* lines 128-134: a call that returns before line 136 meets no environment
EnvsOf(item, fs, E) ==
    IF item.file \in DOMAIN fs /\ Supported(item.file) THEN E ELSE {NoEnv}

\* the state a call that returns early (or raises before the cache logic)
\* leaves behind
Untouched(c, d, rem, fs, upd, app, item, outcome, raised) ==
    [cache |-> c, dirty |-> d, remote |-> rem, files |-> fs, updated |-> upd,
     applied |-> app, raised |-> raised, late |-> FALSE,
     call |-> [NoCall EXCEPT !.file = item.file, !.track = item.id,
                             !.outcome = outcome, !.dirty = d]]

\* _process_item(item, mode) on the cache (c, isDict, d), the remote ratings, the
\* files, the change log and the history of applied writes, under e.
process_item(item, m, c, isDict, d, rem, fs, upd, app, e) ==
    LET p == item.file IN
    IF p \notin DOMAIN fs
    THEN Untouched(c, d, rem, fs, upd, app, item, "missing", FALSE)
    ELSE IF ~Supported(p)
    THEN Untouched(c, d, rem, fs, upd, app, item, "unsupported", FALSE)
    ELSE IF e.plexRead = "raise"
    THEN Untouched(c, d, rem, fs, upd, app, item, "plex_raise", TRUE)
    ELSE IF e.stat = "notfound"
    THEN Untouched(c, d, rem, fs, upd, app, item, "stat", FALSE)
    ELSE IF ~isDict
    THEN \* line 147: a list or a string has no .get
         Untouched(c, d, rem, fs, upd, app, item, "cache_raise", TRUE)
    ELSE
      LET plex_rating   == get_rating_from_plex(rem, item)
          current_mtime == fs[p].mtime
          fs1 == external_write(fs, p, e.extRead)
          rd == ReadPath(c, d, fs1, p, current_mtime)
          ws == Decide(m, plex_rating, rd.file_rating)
          s0 == [cache |-> rd.cache, dirty |-> rd.dirty, remote |-> rem,
                 files |-> fs1, updated |-> upd, applied |-> app,
                 issued |-> <<>>, raised |-> FALSE, restat |-> "none",
                 late |-> FALSE]
          s1 == IssueWrites(s0, item, ws, e)
      IN [cache |-> s1.cache, dirty |-> s1.dirty, remote |-> s1.remote,
          files |-> s1.files, updated |-> s1.updated, applied |-> s1.applied,
          raised |-> s1.raised, late |-> s1.late,
          call |-> [file |-> p, track |-> item.id, prev |-> <<>>,
                    outcome |-> IF s1.raised THEN "write_raise" ELSE "done",
                    R |-> rem[item.id], L |-> fs[p].rating,
                    mtime |-> current_mtime,
                    before |-> IF p \in DOMAIN c THEN << c[p] >> ELSE <<>>,
                    hit |-> rd.hit, reads |-> rd.reads,
                    file_rating |-> rd.file_rating,
                    entry |-> << rd.cache[p] >>,
                    issued |-> s1.issued, dirty |-> s1.dirty,
                    restat |-> s1.restat]]

\* --------------------------------------------------- the library walker
RECURSIVE AlbumTracks(_)
\* lines 250-258: the tracks of the albums in order, empty albums skipped
AlbumTracks(albums) ==
    IF albums = <<>> THEN <<>>
    ELSE (IF Head(albums) = <<>> THEN <<>> ELSE Head(albums))
         \o AlbumTracks(Tail(albums))

RECURSIVE Flatten(_)
\* lines 246-258: the tracks the walk visits in a section's items
Flatten(items) ==
    IF items = <<>> THEN <<>>
    ELSE (IF Head(items).type = "artist"
          THEN AlbumTracks(Head(items).albums) ELSE <<>>)
         \o Flatten(Tail(items))

\* NeedsSave with > for >=
NeedsSaveLate(n) == n > CACHE_SAVE_INTERVAL

\* line 263
NeedsSave(n) == n >= CACHE_SAVE_INTERVAL

CurrentTracks == Flatten(plex[libraries[li]])

\* RatingSync.__init__ and the entry into _process_libraries
Start ==
    /\ pc = "init"
    /\ LET ld == load_cache(cacheFile, persisted)
       IN /\ file_rating_cache' = ld.cache
          /\ cacheIsDict' = ld.isDict
    /\ loaded' = cacheFile
    /\ updated_tracks' = <<>>
    /\ \E ok \in BOOLEAN :
         /\ connected' = ok
         /\ pc' = IF ok THEN "libs" ELSE "raised"
    /\ li' = 1 /\ ti' = 1
    /\ processed_tracks' = 0 /\ tracks_since_save' = 0
    /\ UNCHANGED << libraries, plex, mode, run, cache_dirty, persisted,
                    cacheFile, remote,
                    files, applied, call, invocations, periodicFlushes,
                    printed, exitWritable, fault, prevFault, lastSeen, visited,
                    lateWrite >>

\* LibraryNotFound without the try/except of lines 234-238: the NotFound
\* of library.section(name) ends the walk
LibraryNotFoundAborts ==
    /\ pc = "libs" /\ li <= Len(libraries)
    /\ libraries[li] \notin DOMAIN plex
    /\ pc' = "raised"
    /\ UNCHANGED << libraries, plex, mode, run, li, ti, processed_tracks,
                    tracks_since_save, file_rating_cache, cache_dirty,
                    persisted, cacheFile, cacheIsDict, remote, files,
                    updated_tracks, applied, call,
                    invocations, periodicFlushes, connected, printed,
                    exitWritable, fault, prevFault, lastSeen, visited,
                    loaded, lateWrite >>

\* lines 234-238: the section does not resolve
LibraryNotFound ==
    /\ pc = "libs" /\ li <= Len(libraries)
    /\ libraries[li] \notin DOMAIN plex
    /\ li' = li + 1
    /\ UNCHANGED << libraries, plex, mode, run, pc, ti, processed_tracks,
                    tracks_since_save, file_rating_cache, cache_dirty,
                    persisted, cacheFile, cacheIsDict, remote, files,
                    updated_tracks, applied, call,
                    invocations, periodicFlushes, connected, printed,
                    exitWritable, fault, prevFault, lastSeen, visited,
                    loaded, lateWrite >>

\* LibraryEmpty with `break` for the `continue` of line 244: the library loop
\* ends at the empty section
LibraryEmptyBreaks ==
    /\ pc = "libs" /\ li <= Len(libraries)
    /\ libraries[li] \in DOMAIN plex
    /\ plex[libraries[li]] = <<>>
    /\ li' = Len(libraries) + 1
    /\ UNCHANGED << libraries, plex, mode, run, pc, ti, processed_tracks,
                    tracks_since_save, file_rating_cache, cache_dirty,
                    persisted, cacheFile, cacheIsDict, remote, files,
                    updated_tracks, applied, call,
                    invocations, periodicFlushes, connected, printed,
                    exitWritable, fault, prevFault, lastSeen, visited,
                    loaded, lateWrite >>

\* lines 240-244: the section has no items
LibraryEmpty ==
    /\ pc = "libs" /\ li <= Len(libraries)
    /\ libraries[li] \in DOMAIN plex
    /\ plex[libraries[li]] = <<>>
    /\ li' = li + 1
    /\ UNCHANGED << libraries, plex, mode, run, pc, ti, processed_tracks,
                    tracks_since_save, file_rating_cache, cache_dirty,
                    persisted, cacheFile, cacheIsDict, remote, files,
                    updated_tracks, applied, call,
                    invocations, periodicFlushes, connected, printed,
                    exitWritable, fault, prevFault, lastSeen, visited,
                    loaded, lateWrite >>

\* line 246: the walk enters the section's items
LibraryEnter ==
    /\ pc = "libs" /\ li <= Len(libraries)
    /\ libraries[li] \in DOMAIN plex
    /\ plex[libraries[li]] # <<>>
    /\ pc' = "tracks" /\ ti' = 1
    /\ UNCHANGED << libraries, plex, mode, run, li, processed_tracks,
                    tracks_since_save, file_rating_cache, cache_dirty,
                    persisted, cacheFile, cacheIsDict, remote, files,
                    updated_tracks, applied, call,
                    invocations, periodicFlushes, connected, printed,
                    exitWritable, fault, prevFault, lastSeen, visited,
                    loaded, lateWrite >>

\* lines 258-265: one iteration of the track loop, the environment of the
\* call taken from E
TrackStepIn(E) ==
    /\ pc = "tracks" /\ ti <= Len(CurrentTracks)
    /\ LET item == CurrentTracks[ti] IN
       \E e \in EnvsOf(item, files, E), how \in StorageOutcomes(TRUE) :
         LET r0 == process_item(item, mode, file_rating_cache, cacheIsDict,
                                cache_dirty, remote, files, updated_tracks,
                                applied, e)
             r == [r0 EXCEPT !.call.prev =
                       IF item.file \in DOMAIN lastSeen
                       THEN << lastSeen[item.file] >> ELSE <<>>]
             n == tracks_since_save + 1
             sv == save_cache(r.dirty, r.cache, persisted, cacheFile, how)
         IN /\ remote' = r.remote
            /\ files' = r.files
            /\ updated_tracks' = r.updated
            /\ applied' = r.applied
            /\ call' = r.call
            /\ file_rating_cache' = r.cache
            /\ invocations' = invocations + 1
            /\ visited' = Append(visited, item.id)
            /\ lateWrite' = (lateWrite \/ r.late)
            /\ fault' = (fault \/ r.raised \/ r.call.outcome = "stat")
            /\ lastSeen' = IF r.call.outcome = "done"
                           THEN MapPut(lastSeen, r.call.file,
                                       r.files[r.call.file].mtime)
                           ELSE lastSeen
            /\ IF r.raised
               THEN /\ pc' = "raised"
                    /\ cache_dirty' = r.dirty
                    /\ UNCHANGED << ti, processed_tracks, tracks_since_save,
                                    persisted, cacheFile, periodicFlushes >>
               ELSE /\ pc' = pc
                    /\ ti' = ti + 1
                    /\ processed_tracks' = processed_tracks + 1
                    /\ IF NeedsSave(n)
                       THEN /\ cache_dirty' = sv.dirty
                            /\ persisted' = sv.persisted
                            /\ cacheFile' = sv.kind
                            /\ tracks_since_save' = 0
                            /\ periodicFlushes' = periodicFlushes + 1
                       ELSE /\ cache_dirty' = r.dirty
                            /\ tracks_since_save' = n
                            /\ UNCHANGED << persisted, cacheFile,
                                            periodicFlushes >>
    /\ UNCHANGED << libraries, plex, mode, run, li, cacheIsDict, connected,
                    printed, exitWritable, prevFault, loaded >>

\* a call with no external writer at work
TrackStep == TrackStepIn(Envs)

\* a call next to an external writer
TrackStepRace == TrackStepIn(RaceEnvs)

\* an external writer changes the rating of a music file between two calls
\* or between two runs
ExternalWrite ==
    /\ pc \in {"init", "tracks"}
    /\ \E p \in WrittenFiles, x \in ROpt :
         /\ files[p].mtime < MaxMtime
         /\ x # files[p].rating
         /\ files' = external_write(files, p, << x >>)
    /\ UNCHANGED << libraries, plex, mode, run, pc, li, ti, processed_tracks,
                    tracks_since_save, file_rating_cache, cache_dirty,
                    persisted, cacheFile, cacheIsDict, remote, updated_tracks,
                    applied, call, invocations, periodicFlushes, connected,
                    printed, exitWritable, fault, prevFault, lastSeen, visited,
                    loaded, lateWrite >>

\* the track loops of the section are exhausted
LibraryDone ==
    /\ pc = "tracks" /\ ti > Len(CurrentTracks)
    /\ pc' = "libs" /\ li' = li + 1
    /\ UNCHANGED << libraries, plex, mode, run, ti, processed_tracks,
                    tracks_since_save, file_rating_cache, cache_dirty,
                    persisted, cacheFile, cacheIsDict, remote, files,
                    updated_tracks, applied, call,
                    invocations, periodicFlushes, connected, printed,
                    exitWritable, fault, prevFault, lastSeen, visited,
                    loaded, lateWrite >>

\* lines 267-273: the count is reported and the cache flushed
FinishWalk ==
    /\ pc = "libs" /\ li > Len(libraries)
    /\ \E ok \in StorageOutcomes(cache_dirty) :
         LET sv == save_cache(cache_dirty, file_rating_cache, persisted,
                              cacheFile, ok)
         IN /\ cache_dirty' = sv.dirty
            /\ persisted' = sv.persisted
            /\ cacheFile' = sv.kind
    /\ pc' = "summary"
    /\ UNCHANGED << libraries, plex, mode, run, li, ti, processed_tracks,
                    tracks_since_save, file_rating_cache, cacheIsDict, remote,
                    files,
                    updated_tracks, applied, call, invocations,
                    periodicFlushes, connected, printed, exitWritable, fault,
                    prevFault, lastSeen, visited,
                    loaded, lateWrite >>

\* lines 275-287, called at lines 293, 300, 307
PrintSummary ==
    /\ pc = "summary"
    /\ printed' = TRUE
    /\ pc' = "end"
    /\ UNCHANGED << libraries, plex, mode, run, li, ti, processed_tracks,
                    tracks_since_save, file_rating_cache, cache_dirty,
                    persisted, cacheFile, cacheIsDict, remote, files,
                    updated_tracks, applied, call,
                    invocations, periodicFlushes, connected, exitWritable,
                    fault, prevFault, lastSeen, visited,
                    loaded, lateWrite >>

\* line 80: the interpreter exits (normal return, uncaught exception or
\* sys.exit) and runs the registered save_cache
Exit ==
    /\ pc \in {"end", "raised"}
    /\ \E ok \in StorageOutcomes(cache_dirty) :
         LET sv == save_cache(cache_dirty, file_rating_cache, persisted,
                              cacheFile, ok)
         IN /\ cache_dirty' = sv.dirty
            /\ persisted' = sv.persisted
            /\ cacheFile' = sv.kind
            /\ exitWritable' = (ok = "ok")
    /\ pc' = "exited"
    /\ UNCHANGED << libraries, plex, mode, run, li, ti, processed_tracks,
                    tracks_since_save, file_rating_cache, cacheIsDict, remote,
                    files,
                    updated_tracks, applied, call, invocations,
                    periodicFlushes, connected, printed, fault, prevFault, lastSeen, visited,
                    loaded, lateWrite >>

\* lines 49-50, 80: the next process imports the module
NextProcess ==
    /\ pc = "exited" /\ run < MaxRuns
    /\ run' = run + 1
    /\ pc' = "init"
    /\ file_rating_cache' = EmptyMap
    /\ cacheIsDict' = TRUE
    /\ cache_dirty' = FALSE
    /\ updated_tracks' = <<>>
    /\ applied' = <<>>
    /\ call' = NoCall
    /\ invocations' = 0 /\ periodicFlushes' = 0
    /\ visited' = <<>>
    /\ loaded' = "none"
    /\ processed_tracks' = 0 /\ tracks_since_save' = 0
    /\ li' = 1 /\ ti' = 1
    /\ connected' = FALSE /\ printed' = FALSE /\ exitWritable' = FALSE
    /\ prevFault' = (fault \/ ~printed) /\ fault' = FALSE
    /\ UNCHANGED << libraries, plex, mode, persisted, cacheFile, remote,
                    files, lastSeen, lateWrite >>

\* ------------------------------------------------------ initial states
StaleEntry == [mtime |-> 0, rating |-> <<1>>]

\* the files on disk, all written at time 1: a.mp3 carries any rating,
\* b.FLAC none or rating 1, c.txt none
InitialFiles ==
    { fs \in [RichFiles \cup {"c.txt"} -> [mtime : {1}, rating : ROpt]] :
        /\ fs["b.FLAC"].rating \in {None, <<1>>}
        /\ fs["c.txt"].rating = None }

\* what earlier runs may have left in CACHE_FILE: per rated file no entry,
\* the entry of the file as it is, or an entry of an older version of it
InitialCaches(fs) ==
    UNION { { c \in [D -> [mtime : 0..1, rating : ROpt]] :
                \A p \in D : c[p] = fs[p] \/ c[p] = StaleEntry }
            : D \in SUBSET CachedFiles }

\* CACHE_FILE: absent, an object earlier runs left, or not an object
InitialStores(fs) ==
    { [kind |-> "object", persisted |-> c] : c \in InitialCaches(fs) \ {EmptyMap} }
    \cup { [kind |-> k, persisted |-> EmptyMap] :
             k \in {"missing", "invalid", "null", "list"} }

\* the remote ratings: any for a.mp3's item, none or 1 for b.FLAC's; the
\* items of c.txt and gone.mp3 are never read
InitialRemotes ==
    { rem \in [TrackIds -> ROpt] :
        /\ rem[2] \in {None, <<1>>}
        /\ rem[3] = None /\ rem[4] = None }

InitProcess ==
    /\ run = 1 /\ pc = "init" /\ li = 1 /\ ti = 1
    /\ processed_tracks = 0 /\ tracks_since_save = 0
    /\ file_rating_cache = EmptyMap
    /\ cacheIsDict = TRUE
    /\ cache_dirty = FALSE
    /\ updated_tracks = <<>>
    /\ applied = <<>>
    /\ call = NoCall
    /\ invocations = 0 /\ periodicFlushes = 0
    /\ connected = FALSE /\ printed = FALSE /\ exitWritable = FALSE
    /\ fault = FALSE /\ prevFault = FALSE
    /\ lastSeen = EmptyMap
    /\ visited = <<>>
    /\ loaded = "none"
    /\ lateWrite = FALSE

Init ==
    /\ libraries = SmallLibraries
    /\ plex = SmallPlex
    /\ mode \in Modes
    /\ files \in InitialFiles
    /\ \E st \in InitialStores(files) :
          persisted = st.persisted /\ cacheFile = st.kind
    /\ remote \in InitialRemotes
    /\ remote[2] # None \/ files["b.FLAC"].rating # None
    /\ InitProcess

Next ==
    \/ Start
    \/ LibraryNotFound
    \/ LibraryEmpty
    \/ LibraryEnter
    \/ TrackStep
    \/ LibraryDone
    \/ FinishWalk
    \/ PrintSummary
    \/ Exit
    \/ NextProcess

Spec == Init /\ [][Next]_vars

\* The long catalog (more than two save intervals of tracks, over several
\* libraries), first run with no cache file and no rating in the files.
InitCadence ==
    /\ libraries = LongLibraries
    /\ plex = LongPlex
    /\ mode \in Modes
    /\ files \in InitialFiles
    /\ files["a.mp3"].rating = None
    /\ files["b.FLAC"].rating = None
    /\ persisted = EmptyMap /\ cacheFile = "missing"
    /\ remote \in InitialRemotes
    /\ remote[2] = <<1>>
    /\ InitProcess

SpecCadence == InitCadence /\ [][Next]_vars

\* One run over the library of a.mp3 next to an external writer of that
\* file: the collaborators work, the cache file is absent or an object.
InitRace ==
    /\ libraries = RaceLibraries
    /\ plex = SmallPlex
    /\ mode \in Modes
    /\ files \in InitialFiles
    /\ files["b.FLAC"].rating = None
    /\ \E st \in InitialStores(files) :
          /\ st.kind \in {"missing", "object"}
          /\ persisted = st.persisted /\ cacheFile = st.kind
    /\ remote \in InitialRemotes
    /\ remote[2] = <<1>>
    /\ InitProcess

NextRace ==
    \/ Start
    \/ LibraryNotFound
    \/ LibraryEmpty
    \/ LibraryEnter
    \/ TrackStepRace
    \/ ExternalWrite
    \/ LibraryDone
    \/ FinishWalk
    \/ PrintSummary
    \/ Exit

SpecRace == InitRace /\ [][NextRace]_vars


\* ------------------------------------------------------------- claims
\* the call reached the decision (it was not skipped and the remote read
\* and the stat succeeded)
Decided == call.outcome \in {"done", "write_raise"}

\* the decision table of the specification: the writes due for (mode, R, L)
TableWrites(m, R, L) ==
    CASE m = "import" -> IF L # None /\ R # L
                         THEN << [to |-> "plex", value |-> L] >> ELSE <<>>
      [] m = "export" -> IF R # None /\ L # R
                         THEN << [to |-> "file", value |-> R] >> ELSE <<>>
      [] m = "sync"   -> IF R = L THEN <<>>
                         ELSE IF R # None
                         THEN << [to |-> "file", value |-> R] >>
                         ELSE << [to |-> "plex", value |-> L] >>

\* C1: for every mode and every remote and local rating among absent and
\* 1..MaxRating, a call on an existing supported file issues exactly the
\* write of the decision table (none where the table says no-op), and a write
\* that succeeded has stored its value in the store it names.
C1_ModeCorrectness ==
    Decided =>
        /\ call.issued = TableWrites(mode, call.R, call.L)
        /\ (call.outcome = "done" /\ call.issued # <<>>) =>
              IF call.issued[1].to = "plex"
              THEN remote[call.track] = call.issued[1].value
              ELSE files[call.file].rating = call.issued[1].value

C1_Witness ==
    /\ mode = "sync" /\ call.outcome = "done"
    /\ call.R = None /\ call.L = <<2>>
    /\ call.issued = << [to |-> "plex", value |-> <<2>>] >>
    /\ remote[call.track] = <<2>>

\* C2: in a run that follows a run which completed without a race on a file
\* or an exception, no write is issued or applied and the change log stays
\* empty (the stores change only through the runs themselves).
C2_Idempotence ==
    (run >= 2 /\ ~prevFault) =>
        /\ call.issued = <<>>
        /\ applied = <<>>
        /\ updated_tracks = <<>>

\* the second run's call on a.mp3, which the first run wrote and for which
\* it left no entry: the tag is read again and nothing is written
C2_Witness ==
    /\ run = 2 /\ ~prevFault
    /\ call.file = "a.mp3" /\ call.outcome = "done"
    /\ call.mtime = 2 /\ call.prev = <<2>>
    /\ call.before = <<>> /\ call.reads = 1
    /\ call.issued = <<>>

\* C3 as stated: a call on a file whose modification time is the one it had
\* when the preceding call on it ended does not read the file's tag (taken
\* over the runs whose preceding run met no exception and no race).
C3_Original ==
    (Decided /\ ~prevFault /\ call.prev = << call.mtime >>) => call.reads = 0

\* C3 amended: a call that finds an entry with the file's current mtime in
\* the cache does not read the tag and takes the entry's rating, absent or
\* not; any other call reads the tag once and stores (current mtime, rating
\* read) as the entry.
C3_CacheCoherency ==
    Decided =>
        IF call.before # <<>> /\ call.before[1].mtime = call.mtime
        THEN /\ call.reads = 0
             /\ call.file_rating = call.before[1].rating
        ELSE /\ call.reads = 1
             /\ call.file_rating = call.L
             /\ call.entry = << [mtime |-> call.mtime, rating |-> call.L] >>

\* the second of two consecutive calls on an unchanged unrated file
C3_Witness ==
    /\ Decided /\ call.prev = << call.mtime >>
    /\ call.hit /\ call.reads = 0 /\ call.file_rating = None

\* C8: a call issues at most one write, so never a remote and a local one.
C8_AtMostOneWrite ==
    /\ Len(call.issued) <= 1
    /\ ~ \E i, j \in 1..Len(call.issued) :
           call.issued[i].to = "plex" /\ call.issued[j].to = "file"

\* both ratings present and different in sync mode: one local write
C8_Witness ==
    /\ mode = "sync" /\ call.outcome = "done"
    /\ call.R = <<1>> /\ call.L = <<2>>
    /\ call.issued = << [to |-> "file", value |-> <<1>>] >>

\* C10: a call skipped because the file is missing, its extension is not
\* supported or the stat raised FileNotFoundError leaves the cache mapping,
\* the dirty flag, the remote ratings, the files and the change log as they
\* were.
C10_SkipFrame ==
    [][ ( /\ pc = "tracks"
          /\ invocations' = invocations + 1
          /\ LET f == CurrentTracks[ti].file
             IN \/ f \notin DOMAIN files
                \/ Lower(Suffix(f)) \notin SUPPORTED_EXTENSIONS
                \/ call'.outcome = "stat" )
        => ( /\ file_rating_cache' = file_rating_cache
             /\ call'.dirty = cache_dirty
             /\ remote' = remote
             /\ files' = files
             /\ updated_tracks' = updated_tracks
             /\ applied' = applied ) ]_vars

\* b.FLAC skipped by the stat race while the cache holds unsaved entries
C10_Witness ==
    /\ call.outcome = "stat" /\ call.file = "b.FLAC"
    /\ cache_dirty /\ file_rating_cache # EmptyMap


\* the tracks a complete walk passes to the track processor
RECURSIVE WalkTracks(_)
WalkTracks(names) ==
    IF names = <<>> THEN <<>>
    ELSE (IF Head(names) \in DOMAIN plex
          THEN Flatten(plex[Head(names)]) ELSE <<>>)
         \o WalkTracks(Tail(names))

\* C4 as stated: whatever fails in one track's processing, every track of
\* the catalog has been passed to the track processor when the run is over.
C4_WalkSurvivesFailure ==
    (pc = "exited" /\ connected) => invocations = Len(WalkTracks(libraries))

\* C5 as stated: after an exit with writable storage the cache file holds
\* the in-memory mapping.
C5_ExitFlushLosesNothing ==
    (pc = "exited" /\ exitWritable) => persisted = file_rating_cache

\* C6 as stated: the change log holds one record per applied write, in the
\* order of the writes, and none for a write that failed.
C6_LogMatchesApplied ==
    /\ Len(updated_tracks) = Len(applied)
    /\ \A i \in 1..Len(updated_tracks) :
          /\ i <= Len(applied)
          /\ updated_tracks[i].track = applied[i].track
          /\ updated_tracks[i].new = applied[i].value

\* C7 as stated: a run that connected has printed its summary when it is
\* over.
C7_SummaryAlwaysPrinted ==
    (pc = "exited" /\ connected) => printed

\* C9: while the walk runs, every call made has returned and been counted,
\* and the periodic flushes number floor(n / CACHE_SAVE_INTERVAL) for the n
\* tracks processed so far, skipped ones included, whatever the library
\* boundaries in between.
C9_FlushCadence ==
    /\ periodicFlushes = processed_tracks \div CACHE_SAVE_INTERVAL
    /\ pc \in {"libs", "tracks", "summary", "end"} =>
          invocations = processed_tracks

\* the hundredth track, in a later library than the first: two flushes
C9_Witness ==
    /\ processed_tracks = 2 * CACHE_SAVE_INTERVAL
    /\ periodicFlushes = 2
    /\ li > 1 /\ pc = "tracks"

\* C11: over a whole import run no file on disk changes and no local write
\* is issued; over a whole export run no remote rating changes and no remote
\* write is issued.
C11_ModeDirection ==
    [][ /\ mode = "import" =>
              /\ files' = files
              /\ \A i \in 1..Len(call'.issued) : call'.issued[i].to # "file"
        /\ mode = "export" =>
              /\ remote' = remote
              /\ \A i \in 1..Len(call'.issued) : call'.issued[i].to # "plex" ]_vars

\* an import run that wrote a remote rating and is over
C11_Witness ==
    /\ mode = "import" /\ pc = "exited" /\ printed
    /\ \E i \in 1..Len(applied) : applied[i].to = "plex"

\* the last call made raised (the run ended there)
CallRaised == call.outcome \in {"plex_raise", "write_raise", "cache_raise"}

\* the track ids of the catalogs in configuration and enumeration order:
\* Music (a.mp3, c.txt), the bulk albums of the long catalog, More
\* (gone.mp3, b.FLAC); "Renamed" does not resolve and "Empty" has no items
ExpectedVisits ==
    IF libraries = SmallLibraries
    THEN << 1, 3, 4, 2 >>
    ELSE << 1, 3 >> \o [i \in 1..(3 * FillerLen) |-> 4] \o << 4, 2 >>

\* C12: the walk is never inside the tracks of a library that does not
\* resolve or has no items, and when a run that connected and met no
\* exception in a track is over, the tracks of the libraries after such a
\* library have been processed in order and the final flush and the summary
\* have been reached.
C12_LibrarySkipped ==
    \A k \in 1..Len(libraries) :
        (libraries[k] \notin DOMAIN plex \/ plex[libraries[k]] = <<>>) =>
            /\ ~(pc = "tracks" /\ li = k)
            /\ (pc = "exited" /\ connected /\ ~CallRaised) =>
                  /\ printed
                  /\ visited = ExpectedVisits

\* the walk is in the library after the unresolved and the empty one
C12_Witness ==
    /\ pc = "tracks" /\ li = 4 /\ libraries[li] = "More"
    /\ libraries[2] \notin DOMAIN plex /\ plex[libraries[3]] = <<>>
    /\ visited = << 1, 3, 4 >>

\* C13 as stated: after a load that found text that is not JSON, the cache
\* is a mapping and, once the final flush has run without an error, the cache
\* file holds the serialized in-memory mapping.
C13_Original ==
    loaded = "invalid" =>
        /\ cacheIsDict
        /\ (pc \in {"summary", "end"} /\ ~cache_dirty) =>
              (cacheFile = "object" /\ persisted = file_rating_cache)

\* C13 amended: a load that finds text that is not JSON leaves an empty,
\* clean mapping; once the final flush has run without an error the cache
\* file holds the serialized in-memory mapping if an entry was put since
\* the load, and is still the corrupt file otherwise (the flush of a cache
\* that is not dirty writes nothing).
C13_CorruptCacheFile ==
    loaded = "invalid" =>
        /\ cacheIsDict
        /\ invocations = 0 => (file_rating_cache = EmptyMap /\ ~cache_dirty)
        /\ (pc \in {"summary", "end"} /\ ~cache_dirty) =>
              \/ cacheFile = "object" /\ persisted = file_rating_cache
              \/ cacheFile = "invalid" /\ file_rating_cache = EmptyMap

\* the final flush has replaced the corrupt file by the mapping of the run
C13_Witness ==
    /\ loaded = "invalid" /\ pc = "summary"
    /\ cacheFile = "object" /\ persisted = file_rating_cache
    /\ "a.mp3" \in DOMAIN persisted

\* C14: a flush of a dirty cache (the periodic one, the final one or the one
\* at exit) never ends the run and leaves the mapping as it is; either it
\* fails and the dirty flag stays set, or it clears the flag and the cache
\* file then holds exactly the in-memory mapping - so the first flush that
\* succeeds after failed ones persists everything.
C14_FlushFailure ==
    [][ LET periodic == periodicFlushes' = periodicFlushes + 1
            final    == pc = "libs" /\ pc' = "summary"
            atexit   == pc # "exited" /\ pc' = "exited"
            dirtyBefore == IF periodic THEN call'.dirty ELSE cache_dirty
        IN  ((periodic \/ final \/ atexit) /\ dirtyBefore) =>
              /\ periodic => (pc' = "tracks" /\ ti' = ti + 1)
              /\ ~periodic => file_rating_cache' = file_rating_cache
              /\ \/ cache_dirty'
                 \/ /\ ~cache_dirty'
                    /\ cacheFile' = "object"
                    /\ persisted' = file_rating_cache' ]_vars

\* the periodic flush after the fiftieth track failed: the walk goes on with
\* the flag set and the entry of a.mp3 not yet in the cache file
C14_Witness ==
    /\ pc = "tracks" /\ periodicFlushes = 1 /\ tracks_since_save = 0
    /\ cache_dirty
    /\ "a.mp3" \in DOMAIN file_rating_cache
    /\ "a.mp3" \notin DOMAIN persisted

\* C15: after a call that wrote the value v into the file (export or sync):
\* when the re-stat succeeded the entry of the path is (the file's new
\* mtime, v) and the call left the cache dirty; when it failed the cache has
\* no entry for the path; an entry of the path never holds another rating
\* than v.
C15_AfterLocalWrite ==
    ( /\ call.outcome = "done" /\ call.issued # <<>>
      /\ call.issued[1].to = "file" ) =>
        LET p == call.file
            v == call.issued[1].value
        IN /\ call.restat \in {"ok", "fail"}
           /\ files[p] = [mtime |-> call.mtime + 1, rating |-> v]
           /\ call.restat = "ok" =>
                 /\ p \in DOMAIN file_rating_cache
                 /\ file_rating_cache[p] = [mtime |-> files[p].mtime, rating |-> v]
                 /\ call.dirty
           /\ call.restat = "fail" => p \notin DOMAIN file_rating_cache
           /\ p \in DOMAIN file_rating_cache => file_rating_cache[p].rating = v

\* a.mp3 was taken from a valid entry (rating 1), rating 2 was written into
\* it and the re-stat failed: the entry is gone
C15_Witness ==
    /\ mode \in {"export", "sync"}
    /\ call.outcome = "done" /\ call.file = "a.mp3"
    /\ call.hit /\ call.before = << [mtime |-> call.mtime, rating |-> <<1>>] >>
    /\ call.issued = << [to |-> "file", value |-> <<2>>] >>
    /\ call.restat = "fail"
    /\ "a.mp3" \notin DOMAIN file_rating_cache

\* C16: a call that takes a cache hit and issues no write or a remote write
\* (whether that write succeeds or raises) leaves the cache mapping and the
\* dirty flag as they were; when the cached rating equals the remote one in
\* sync mode there is no write and no record either.
C16_HitLeavesCache ==
    [][ ( /\ pc = "tracks"
          /\ invocations' = invocations + 1
          /\ call'.hit
          /\ \A i \in 1..Len(call'.issued) : call'.issued[i].to = "plex" )
        => ( /\ file_rating_cache' = file_rating_cache
             /\ call'.dirty = cache_dirty
             /\ (mode = "sync" /\ call'.R = call'.file_rating) =>
                   /\ call'.issued = <<>>
                   /\ updated_tracks' = updated_tracks
                   /\ applied' = applied
                   /\ remote' = remote /\ files' = files ) ]_vars

\* sync, both ratings 2, the local one taken from the cache of a clean run:
\* nothing written, flag still clear
C16_Witness ==
    /\ mode = "sync" /\ call.outcome = "done"
    /\ call.hit /\ call.reads = 0
    /\ call.R = <<2>> /\ call.file_rating = <<2>>
    /\ call.issued = <<>> /\ updated_tracks = <<>>
    /\ ~call.dirty
    /\ file_rating_cache = persisted

\* C17 as stated: whatever the cache file holds, after the load the
\* in-memory cache is a mapping and no call fails in its cache lookup.
C17_LoadAlwaysMapping ==
    loaded # "none" =>
        /\ cacheIsDict
        /\ call.outcome # "cache_raise"

\* more than the tracks of any one library of the catalogs
TrackCap == 4 * FillerLen

\* the position of a run: it grows with every step of the run and is bounded
WalkRank ==
    CASE pc = "init"    -> 0
      [] pc = "libs"    -> 1 + li * TrackCap
      [] pc = "tracks"  -> 1 + li * TrackCap + ti
      [] pc = "summary" -> 2 + (Len(libraries) + 2) * TrackCap
      [] pc = "end"     -> 3 + (Len(libraries) + 2) * TrackCap
      [] pc = "raised"  -> 3 + (Len(libraries) + 2) * TrackCap
      [] pc = "exited"  -> 4 + (Len(libraries) + 2) * TrackCap

\* C18: every step of a run moves the run forward in a bounded position (so
\* the walk over the finite catalog ends), the walk stays inside the
\* catalog (where its next step is defined), and when it has ended without an exception - at the one final
\* flush - the track processor has been invoked exactly on the tracks of the
\* non-empty albums of the artists of the resolvable libraries, in order,
\* once each, and the count reported is the number of invocations.
C18_WalkComplete ==
    [][ /\ run' >= run
        /\ run' = run => WalkRank' > WalkRank
        /\ li' <= Len(libraries) + 1
        /\ pc' = "tracks" =>
              /\ li' <= Len(libraries) /\ libraries[li'] \in DOMAIN plex
              /\ ti' <= Len(Flatten(plex[libraries[li']])) + 1
              /\ ti' < TrackCap
        /\ Len(visited') <= Len(ExpectedVisits)
        /\ SubSeq(ExpectedVisits, 1, Len(visited')) = visited'
        /\ invocations' = Len(visited')
        /\ pc' \in {"summary", "end"} =>
              /\ visited' = ExpectedVisits
              /\ processed_tracks' = invocations' ]_vars

\* the final flush of a walk over the four tracks
C18_Witness ==
    /\ pc = "summary" /\ visited = << 1, 3, 4, 2 >>
    /\ processed_tracks = 4 /\ invocations = 4

\* every entry that carries the current mtime of its file carries the
\* file's rating
Coherent ==
    \A p \in DOMAIN file_rating_cache :
        (p \in DOMAIN files /\ file_rating_cache[p].mtime = files[p].mtime)
            => file_rating_cache[p].rating = files[p].rating

\* C19 as stated: with an external writer acting between the calls and at
\* both points inside a call, every change giving the file a new mtime, an
\* entry with the file's current mtime holds the file's rating.
C19_Original == Coherent

\* C19 amended: the same, as long as no external write fell between a
\* codec write and the re-stat that follows it (external writes between the
\* calls and between the stat and the codec read do not break it).
C19_CoherentUnlessLateWrite == ~lateWrite => Coherent

\* an external writer changed a.mp3 between the stat and the codec read of
\* a miss: the entry pairs the old mtime with the new rating, the file has
\* moved on
C19_Witness ==
    /\ ~lateWrite
    /\ call.file = "a.mp3" /\ call.outcome = "done" /\ call.reads = 1
    /\ call.file_rating # call.L
    /\ call.issued = <<>>
    /\ "a.mp3" \in DOMAIN file_rating_cache
    /\ file_rating_cache["a.mp3"] =
          [mtime |-> call.mtime, rating |-> files["a.mp3"].rating]
    /\ files["a.mp3"].mtime = call.mtime + 1

\* C20 as stated: after a load that found no file or a mapping, whenever
\* the dirty flag is clear the in-memory mapping is the one in the cache
\* file.
C20_DirtyFlagInvariant ==
    (loaded \in {"missing", "object"} /\ ~cache_dirty) =>
        file_rating_cache = persisted

====
